---- MODULE Spec2Model ----
(***************************************************************************)
(* State-machine model of the POST /post_action handler of the NFT-minting *)
(* action server: safety gate, account validation, construction of the     *)
(* unsigned payment transaction, the optimistic 200 response, the payment  *)
(* watcher (findTransactionWithMemo) and the post-payment pipeline         *)
(* (generatePrompt, defineConfig, imagine, createURI, createAsset,         *)
(* transferNFT).                                                           *)
(*                                                                         *)
(* Two builds of the handler are modelled; `variant` says which one runs:  *)
(*   "app"  : src/src/app.ts, lines 451-599                                *)
(*   "part" : src/unnamed/part_000, lines 995-1153                         *)
(* Strings that the code inspects (memo, prompt) are sequences of          *)
(* one-character strings, so that trim, concatenation, number formatting   *)
(* and substring search are computed and not assumed.                      *)
(***************************************************************************)
EXTENDS Integers, Sequences, FiniteSets, TLC

----------------------------------------------------------------------------
(* Bounds of the model *)

\* Longest signature history of the paying account that is explored.
MaxLedger == 6

(* Program constants *)

maxChecks == 10
SigLimit == 5
LAMPORTS_PER_SOL == 1000000000
FallbackLamports == 20000000

\* JavaScript undefined and null where a string is expected.  Strings are
\* sequences of one-character strings, so these two are distinct from every
\* string.
Undefined == <<"undefined">>
Null == <<"null">>
\* the result of a PublicKey constructor that threw
NoKey == 0
\* the absent result of findTransactionWithMemo (signatures are 1, 2, ...)
NullSignature == 0
\* an upload result that is undefined
UndefinedUri == "undefined"
\* a local constant whose declaration has not been reached
NotAssigned == "not assigned"

----------------------------------------------------------------------------
(* Strings *)

IsSpace(c) == c \in {" ", "\t", "\n"}

RECURSIVE TrimStart(_)
TrimStart(s) ==
    IF s = <<>> THEN s
    ELSE IF IsSpace(Head(s)) THEN TrimStart(Tail(s)) ELSE s

RECURSIVE TrimEnd(_)
TrimEnd(s) ==
    IF s = <<>> THEN s
    ELSE IF IsSpace(s[Len(s)]) THEN TrimEnd(SubSeq(s, 1, Len(s) - 1)) ELSE s

\* String.prototype.trim
Trim(s) == TrimEnd(TrimStart(s))

\* (x as string || ''): undefined and the empty string both give ''
OrEmpty(x) == IF x = Undefined THEN <<>> ELSE x

Digit(d) == <<"0", "1", "2", "3", "4", "5", "6", "7", "8", "9">>[d + 1]

\* Number.prototype.toString for a non-negative integer
RECURSIVE NumberToString(_)
NumberToString(n) ==
    IF n < 10 THEN <<Digit(n)>>
    ELSE Append(NumberToString(n \div 10), Digit(n % 10))

\* String.prototype.includes
Includes(hay, needle) ==
    \E i \in 1..(Len(hay) - Len(needle) + 1) :
        SubSeq(hay, i, i + Len(needle) - 1) = needle

\* JavaScript truthiness of a string-or-null value
Truthy(x) == x # Null /\ x # Undefined /\ x # <<>>

----------------------------------------------------------------------------
(* Inputs *)

Variants == {"app", "part"}

\* req.query.user_prompt
QueryPrompts == {Undefined, <<" ", "f", "o", "x">>, <<"{", "p", "}">>}

\* the placeholder the "part" build rejects ('{prompt}', abbreviated)
PromptPlaceholder == <<"{", "p", "}">>

\* req.query.memo
QueryMemos == {<<" ", "a", " ">>}

\* Math.floor(Math.random() * 100000): a few of the values 0..99999
RandomNumbers == {1, 12}

\* Public keys are numbers; their base58 text is given by a table.
MinterKey == 1
WalletKeys == {2, 3}
AssetKeys == {4, 5}
Keys == {MinterKey} \cup WalletKeys \cup AssetKeys

Base58(k) ==
    CASE k = 1 -> "Mint111"
      [] k = 2 -> "Wal222"
      [] k = 3 -> "Wal333"
      [] k = 4 -> "Ast444"
      [] k = 5 -> "Ast555"

\* variation: the account text is not validated
PublicKey_unchecked(text) ==
    IF \E k \in Keys : Base58(k) = text
    THEN CHOOSE k \in Keys : Base58(k) = text
    ELSE MinterKey

\* new PublicKey(text): the key whose base58 text it is, NoKey when it throws
PublicKey(text) ==
    IF \E k \in Keys : Base58(k) = text
    THEN CHOOSE k \in Keys : Base58(k) = text
    ELSE NoKey

\* req.body.account
BodyAccounts == {"Wal222", "Wal333", "not-a-key"}

\* memo column of getSignaturesForAddress, as the RPC node reports it
LedgerMemos == {Null, <<"[", "2", "]", " ", "a", "1">>}

----------------------------------------------------------------------------
(* State *)

VARIABLES
    variant,        \* which build of the handler is deployed
    pc,             \* position of the handler (the await it is suspended at)
    req,            \* the inbound request: query.user_prompt, query.memo, body.account
    randomNumber,   \* const randomNumber
    prompt,         \* const prompt
    pre_memo,       \* const pre_memo / preMemo
    memo,           \* const memo
    safetyCheck,    \* const safetyCheck ("" until safePrompting returns)
    moderation,     \* what the classifier answered to safePrompting ("" until it answers)
    user_account,   \* let user_account (NoKey until constructed)
    mintingFee,     \* const mintingFee
    transaction,    \* the Transaction object the handler builds
    responses,      \* responses written to res, in order: [status, body]
    lateWrites,     \* number of res.status().json() calls made after a response was sent
    errorLog,       \* console.error calls, in order
    ledger,         \* memo column of the payer's signature history, newest first
    watcher,        \* findTransactionWithMemo: "idle", "polling", "found", "absent" or "threw"
    watchMemo,      \* the memo argument of findTransactionWithMemo (Null until called)
    checkCount,     \* let checkCount
    polls,          \* getSignaturesForAddress calls made: the limit of each
    sleeps,         \* 5 second waits taken by the watcher
    transactionSignature, \* result of findTransactionWithMemo
    firstMatch,     \* history: poll number and signature of the first returned entry whose memo contains watchMemo
    called,         \* post-payment stages invoked, in order
    returned,       \* post-payment stages that returned normally, in order
    failed,         \* the stage that threw ("" when none)
    CONFIG,         \* the NFTConfig of defineConfig (Null until made)
    imagePath,      \* result of imagine, <<imgName, randomNumber>> (<<>> until returned)
    files,          \* the files in the upload directory
    unlinkPending,  \* paths given to fs.unlink whose deletion has not happened yet
    imageUri,       \* result of umi.uploader.upload
    metadataUri,    \* result of umi.uploader.uploadJson
    uploads,        \* uploader calls made, in order: "image" / "json"
    assets,         \* tokens created on the ledger: [asset, name, uri, owner]
    newAssetAddress,\* result of createAsset, base58 text ("" until returned)
    transfers,      \* transferV1 calls submitted: [asset, newOwner]
    \* the retrying transferNFT and the end of the handler that calls it
    \* (src/src/app.ts:943-1010 and 1216-1237)
    t_pc,           \* position: the await the handler is suspended at
    t_attempt,      \* the attempt last started (0 before transferNFT is called)
    t_mints,        \* token creations submitted by mintProgrammableNft
    t_mintSeen,     \* this attempt found the mint account
    t_ownerSeen,    \* this attempt found a token account of the sender
    t_submitted,    \* transfer transactions submitted
    t_confirmed,    \* transfer transactions confirmed without error
    t_sleeps,       \* sleep(retryDelay) calls made
    t_errors,       \* console.error calls of transferNFT and mintProgrammableNft
    t_result,       \* "", or how transferNFT ended: "returned" / "threw"
    t_handlerLog,   \* what the catch block of the handler logged ("" when nothing)
    t_lateWrites,   \* res.status().json() calls made after the 200 was sent
    \* two requests in flight at once
    chain,          \* the ledger: transactions confirmed, newest first
    rq,             \* the requests: phase, paying account, salted memo, polls made, signature found
    \* two pipelines over one upload directory
    disk,           \* the files of the directory: [path, image], image = the request it was made for
    pipe,           \* the pipelines: title, random number, position, path, image read and uploaded
    unlinks,        \* the deletions asked of fs.unlink and not yet carried out
    \* the first build of the mint and the transfer (src/unnamed/part_000:363-442, 636-655)
    e_pc,           \* position of the handler of the first build, from the mint on
    e_recipient,    \* user_account, the wallet the token is to go to
    e_builderMint,  \* the mint address in the context of the create builder (NoKey before it is built)
    e_tokens,       \* tokens created on the ledger: [mint, isMutable]
    e_mintAddress,  \* what mintProgrammableNft returned (NoKey: undefined or not returned)
    e_transfers,    \* transfer transactions confirmed: [mint, toOwner]
    e_log,          \* what console.log / console.error were given by the catch blocks
    e_lateWrites,   \* res.status().json() calls made after the 200 was sent
    \* one call of getFeeInLamports (src/src/utils/fee.ts:4-27, src/src/app.ts:375-398)
    f_pc,           \* position of a call of getFeeInLamports: "idle", "fetch", "returned"
    f_build,        \* the build the call is made in
    f_answer,       \* what the price service answered
    f_fee,          \* the lamports the call returned
    f_log           \* what the call wrote with console.error

handlerVars == <<variant, pc, req, randomNumber, prompt, pre_memo, memo, safetyCheck, moderation,
                 user_account, mintingFee, transaction, responses, lateWrites,
                 errorLog>>
watcherVars == <<watcher, watchMemo, checkCount, polls, sleeps, transactionSignature,
                 firstMatch>>
pipelineVars == <<called, returned, failed, CONFIG, imagePath, files,
                  unlinkPending, imageUri, metadataUri, uploads, assets,
                  newAssetAddress, transfers>>
transferVars == <<t_pc, t_attempt, t_mints, t_mintSeen, t_ownerSeen, t_submitted,
                  t_confirmed, t_sleeps, t_errors, t_result, t_handlerLog,
                  t_lateWrites>>
pairVars == <<chain, rq>>
fileVars == <<disk, pipe, unlinks>>
earlyVars == <<e_pc, e_recipient, e_builderMint, e_tokens, e_mintAddress, e_transfers, e_log, e_lateWrites>>
feeVars == <<f_pc, f_build, f_answer, f_fee, f_log>>
\* the variables the actions of the single-request handler leave alone
otherVars == <<transferVars, pairVars, fileVars, earlyVars, feeVars>>
vars == <<handlerVars, ledger, watcherVars, pipelineVars, transferVars, pairVars,
          fileVars,
          earlyVars,
          feeVars>>

\* the requests in flight in the two-request specifications
Reqs == {1, 2}

\* a pipeline that has not started; image 0 is no image
NoPipe == [pc |-> "idle", imgName |-> <<>>, randomNumber |-> 0, imagePath |-> <<>>,
           imageBuffer |-> 0, uploaded |-> 0, failed |-> ""]

NoPending == [phase |-> "none", account |-> NoKey, memo |-> Null, fee |-> 0,
              checkCount |-> 0, signature |-> NullSignature]

\* new Transaction()
EmptyTransaction == [instructions |-> <<>>, recentBlockhash |-> "", feePayer |-> NoKey]

NoRequest == [user_prompt |-> Undefined, memo |-> Undefined, account |-> ""]

Init ==
    /\ variant \in Variants
    /\ pc = "idle"
    /\ req = NoRequest
    /\ randomNumber = 0
    /\ prompt = Null
    /\ pre_memo = Null
    /\ memo = Null
    /\ safetyCheck = ""
    /\ moderation = ""
    /\ user_account = NoKey
    /\ mintingFee = 0
    /\ transaction = EmptyTransaction
    /\ responses = <<>>
    /\ lateWrites = 0
    /\ errorLog = <<>>
    /\ ledger = <<>>
    /\ watcher = "idle"
    /\ watchMemo = Null
    /\ checkCount = 0
    /\ polls = <<>>
    /\ sleeps = 0
    /\ transactionSignature = NullSignature
    /\ firstMatch = [poll |-> 0, signature |-> NullSignature]
    /\ called = <<>>
    /\ returned = <<>>
    /\ failed = ""
    /\ CONFIG = [imgName |-> ""]
    /\ imagePath = <<>>
    /\ files = {}
    /\ unlinkPending = {}
    /\ imageUri = NotAssigned
    /\ metadataUri = NotAssigned
    /\ uploads = <<>>
    /\ assets = {}
    /\ newAssetAddress = ""
    /\ transfers = <<>>
    /\ t_pc = "idle"
    /\ t_attempt = 0
    /\ t_mints = 0
    /\ t_mintSeen = FALSE
    /\ t_ownerSeen = FALSE
    /\ t_submitted = 0
    /\ t_confirmed = 0
    /\ t_sleeps = 0
    /\ t_errors = 0
    /\ t_result = ""
    /\ t_handlerLog = ""
    /\ t_lateWrites = 0
    /\ chain = <<>>
    /\ rq = [r \in Reqs |-> NoPending]
    /\ disk = {}
    /\ pipe = [r \in Reqs |-> NoPipe]
    /\ unlinks = {}
    /\ e_pc = "idle"
    /\ e_recipient = NoKey
    /\ e_builderMint = NoKey
    /\ e_tokens = {}
    /\ e_mintAddress = NoKey
    /\ e_transfers = {}
    /\ e_log = <<>>
    /\ e_lateWrites = 0
    /\ f_pc = "idle"
    /\ f_build = ""
    /\ f_answer = [kind |-> "none", usd |-> 0]
    /\ f_fee = 0
    /\ f_log = <<>>

----------------------------------------------------------------------------
(* Helpers of the handler *)

\* Buffer.from(text, 'utf-8') for the characters the model uses
CharCode(c) ==
    CASE c = " " -> 32
      [] c = "0" -> 48 [] c = "1" -> 49 [] c = "2" -> 50 [] c = "3" -> 51
      [] c = "4" -> 52 [] c = "5" -> 53 [] c = "6" -> 54 [] c = "7" -> 55
      [] c = "8" -> 56 [] c = "9" -> 57
      [] c = "[" -> 91 [] c = "]" -> 93
      [] c = "a" -> 97 [] c = "f" -> 102 [] c = "o" -> 111 [] c = "p" -> 112
      [] c = "x" -> 120 [] c = "{" -> 123 [] c = "}" -> 125

BufferFrom(text) == [i \in 1..Len(text) |-> CharCode(text[i])]

\* one instruction of a Transaction
Instruction(programId, from, to, lamports, data) ==
    [programId |-> programId, fromPubkey |-> from, toPubkey |-> to,
     lamports |-> lamports, data |-> data]

SystemTransfer_reversed(from, to, lamports) ==
    Instruction("SystemProgram.transfer", to, from, lamports, <<>>)
SystemTransfer(from, to, lamports) ==
    Instruction("SystemProgram.transfer", from, to, lamports, <<>>)
MemoInstruction(text) ==
    Instruction("MEMO_PROGRAM_ID", NoKey, NoKey, 0, BufferFrom(text))
SetComputeUnitLimit ==
    Instruction("ComputeBudget.setComputeUnitLimit", NoKey, NoKey, 0, <<>>)
SetComputeUnitPrice ==
    Instruction("ComputeBudget.setComputeUnitPrice", NoKey, NoKey, 0, <<>>)

\* the message field given to createPostResponse
PayloadMessage == "Your NFT is on the way"

\* a response written with res.status(status).json(...): the payload of
\* createPostResponse with status 200, { error } otherwise
Response(status, error, tx) ==
    [status |-> status, error |-> error, transaction |-> tx,
     message |-> IF status = 200 THEN PayloadMessage ELSE ""]

\* Math.round(usd_target / solPrice * LAMPORTS_PER_SOL), computed without
\* leaving the 32-bit range
DynamicLamports(target, solPrice) ==
    LET q == LAMPORTS_PER_SOL \div solPrice
        r == LAMPORTS_PER_SOL % solPrice
    IN  target * q + ((2 * target * r + solPrice) \div (2 * solPrice))

\* the dollar target of the fee: $2 in app.ts, $3 in utils/fee.ts
TargetUsd(v) == IF v = "app" THEN 2 ELSE 3

\* what the price service answers: the request throws, a non-OK status,
\* a body without a numeric price, or a price
PriceAnswers ==
    { [kind |-> "throw", usd |-> 0], [kind |-> "not-ok", usd |-> 0],
      [kind |-> "not-a-number", usd |-> 0], [kind |-> "number", usd |-> 0],
      [kind |-> "number", usd |-> 160] }

\* a price of kind "huge" is a number above 2 * target * LAMPORTS_PER_SOL
\* dollars, which the integers of the model do not hold (the JSON number
\* 1e999 parses to Infinity): `solPrice > 0` is true of it and
\* Math.round(target / solPrice * LAMPORTS_PER_SOL) is 0
getFeeInLamports(v, answer) ==
    IF answer.kind = "number" /\ answer.usd > 0
    THEN DynamicLamports(TargetUsd(v), answer.usd)
    ELSE IF answer.kind = "huge"
    THEN 0
    ELSE FallbackLamports

\* the status the outer catch block answers with
CatchStatus(v) == IF v = "app" THEN 400 ELSE 500

\* An error reaches the outer catch block of the handler, after the functions
\* it passed through logged `logs`: console.error, then
\* res.status(..).json(..), which cannot be sent once a response has gone out
Catch_onlyLogs(logs, message) ==
    /\ errorLog' = errorLog \o logs \o <<message>>
    /\ responses' = responses
    /\ lateWrites' = lateWrites
    /\ pc' = "done"
Catch(logs, message) ==
    /\ errorLog' = errorLog \o logs \o <<message>>
    /\ IF responses = <<>>
       THEN /\ responses' = <<Response(CatchStatus(variant), message, EmptyTransaction)>>
            /\ lateWrites' = lateWrites
       ELSE /\ responses' = responses
            /\ lateWrites' = lateWrites + 1
    /\ pc' = "done"

----------------------------------------------------------------------------
(* The handler up to the response *)

\* variation: the random number is left out of the memo
SaltedMemo_unsalted(pre, rnd) == pre

\* const memo = pre_memo + randomNumber.toString()
SaltedMemo(pre, rnd) == pre \o NumberToString(rnd)

\* a POST /post_action arrives; the handler runs to `await safePrompting`
Receive(q_prompt, q_memo, account, rnd) ==
    /\ pc = "idle"
    /\ req' = [user_prompt |-> q_prompt, memo |-> q_memo, account |-> account]
    /\ randomNumber' = rnd
    /\ prompt' = Trim(OrEmpty(q_prompt))
    /\ pre_memo' = Trim(OrEmpty(q_memo))
    /\ memo' = SaltedMemo(Trim(OrEmpty(q_memo)), rnd)
    /\ pc' = "safePrompting"
    /\ UNCHANGED <<otherVars, variant, safetyCheck, moderation, user_account, mintingFee, transaction,
                   responses, lateWrites, errorLog, ledger, watcherVars,
                   pipelineVars>>

\* verdicts safePrompting can return: the moderation build returns 'safe' or
\* 'unsafe'; the structured-output build returns whatever text the model
\* wrote in the safety field, lower-cased
Verdicts(v) == IF v = "app" THEN {"safe", "unsafe", "maybe"} ELSE {"safe", "unsafe"}

\* what the classifier answers: the structured-output build reads the text
\* of the field `safety`; the moderation build reads results[0].flagged,
\* which is true, false or, in a result that is not well formed, missing
ClassifierAnswers(v) ==
    IF v = "app" THEN {"safe", "UNSAFE", "maybe"}
    ELSE {"flagged: true", "flagged: false", "flagged: undefined"}

\* String.prototype.toLowerCase on the texts of the model
ToLowerCase(text) ==
    CASE text = "UNSAFE" -> "unsafe"
      [] text = "Safe" -> "safe"
      [] OTHER -> text

\* the value safePrompting returns for an answer of the classifier
safePrompting(v, answer) ==
    IF v = "app" THEN ToLowerCase(answer)
    ELSE IF answer = "flagged: true" THEN "unsafe" ELSE "safe"

\* variation: everything but 'unsafe' counts as safe
IsSafe_notUnsafe(verdict) == verdict # "unsafe"

\* safetyCheck === 'safe'
IsSafe(verdict) == verdict = "safe"

\* safePrompting returns; the handler runs on to `await getLatestBlockhash`
SafePromptingReturns(answer) ==
    /\ pc = "safePrompting"
    /\ answer \in ClassifierAnswers(variant)
    /\ safePrompting(variant, answer) \in Verdicts(variant)
    /\ moderation' = answer
    /\ safetyCheck' = safePrompting(variant, answer)
    /\ IF ~IsSafe(safePrompting(variant, answer))
       THEN /\ responses' = Append(responses,
                   Response(400, IF variant = "app"
                                 THEN "Invalid prompt detected please try again"
                                 ELSE "Prompt failed safety checks",
                            EmptyTransaction))
            /\ pc' = "done"
            /\ UNCHANGED user_account
       ELSE IF PublicKey(req.account) = NoKey
       THEN /\ responses' = Append(responses,
                   Response(400, "Invalid account", EmptyTransaction))
            /\ pc' = "done"
            /\ UNCHANGED user_account
       ELSE /\ user_account' = PublicKey(req.account)
            /\ pc' = "getLatestBlockhash"
            /\ UNCHANGED responses
    /\ UNCHANGED <<otherVars, variant, req, randomNumber, prompt, pre_memo, memo,
                   mintingFee, transaction, lateWrites, errorLog, ledger,
                   watcherVars, pipelineVars>>

\* safePrompting throws (the classifier call failed)
SafePromptingThrows ==
    /\ pc = "safePrompting"
    /\ IF variant = "app"
       THEN Catch(<<>>, "safety check request failed")
       ELSE Catch(<<"Error during moderation request:">>, "Failed to check prompt safety.")
    /\ UNCHANGED <<otherVars, variant, req, randomNumber, prompt, pre_memo, memo, safetyCheck, moderation,
                   user_account, mintingFee, transaction, ledger,
                   watcherVars, pipelineVars>>

\* connection.getLatestBlockhash() returns or throws
GetLatestBlockhash(ok) ==
    /\ pc = "getLatestBlockhash"
    /\ IF ok
       THEN /\ pc' = "getFeeInLamports"
            /\ UNCHANGED <<responses, lateWrites, errorLog>>
       ELSE Catch(<<>>, "failed to get recent blockhash")
    /\ UNCHANGED <<otherVars, variant, req, randomNumber, prompt, pre_memo, memo, safetyCheck, moderation,
                   user_account, mintingFee, transaction, ledger, watcherVars,
                   pipelineVars>>

\* getFeeInLamports returns; the handler adds the instructions, sets the fee
\* payer and runs on to `await createPostResponse`
GetFeeInLamports_throws(answer) ==
    /\ pc = "getFeeInLamports"
    /\ IF answer.kind = "throw"
       THEN /\ Catch(<<>>, "fee request failed")
            /\ UNCHANGED <<mintingFee, transaction>>
       ELSE /\ mintingFee' = getFeeInLamports(variant, answer)
            /\ transaction' =
                  [transaction EXCEPT
                     !.instructions =
                         << SystemTransfer(user_account, MinterKey, mintingFee'),
                            MemoInstruction(memo),
                            SetComputeUnitLimit,
                            SetComputeUnitPrice >>,
                     !.recentBlockhash = "blockhash",
                     !.feePayer = user_account]
            /\ pc' = "createPostResponse"
            /\ UNCHANGED <<responses, lateWrites, errorLog>>
    /\ UNCHANGED <<otherVars, variant, req, randomNumber, prompt, pre_memo, memo, safetyCheck, moderation,
                   user_account, ledger, watcherVars, pipelineVars>>
GetFeeInLamports(answer) ==
    /\ pc = "getFeeInLamports"
    /\ mintingFee' = getFeeInLamports(variant, answer)
    /\ transaction' =
          [transaction EXCEPT
             !.instructions =
                 << SystemTransfer(user_account, MinterKey, mintingFee'),
                    MemoInstruction(memo),
                    SetComputeUnitLimit,
                    SetComputeUnitPrice >>,
             !.recentBlockhash = "blockhash",
             !.feePayer = user_account]
    /\ pc' = "createPostResponse"
    /\ UNCHANGED <<otherVars, variant, req, randomNumber, prompt, pre_memo, memo, safetyCheck, moderation,
                   user_account, responses, lateWrites, errorLog, ledger,
                   watcherVars, pipelineVars>>

\* the `if` in front of the response of the "part" build
ValidPayloadAndPrompt_placeholderAllowed(p) == p # <<>> /\ Trim(p) # <<>>
ValidPayloadAndPrompt(p) == p # <<>> /\ Trim(p) # <<>> /\ p # PromptPlaceholder

\* variation: the watcher is started without the response having been sent
CreatePostResponseReturns_silent ==
    /\ pc = "createPostResponse"
    /\ watcher' = "polling"
    /\ watchMemo' = memo
    /\ checkCount' = 0
    /\ pc' = "getSignaturesForAddress"
    /\ UNCHANGED <<otherVars, variant, req, randomNumber, prompt, pre_memo, memo, safetyCheck, moderation,
                   user_account, mintingFee, transaction, responses, lateWrites,
                   errorLog, ledger, polls, sleeps, transactionSignature,
                   firstMatch, pipelineVars>>

\* createPostResponse returns the payload: the handler answers 200 and calls
\* processPostTransaction, which calls findTransactionWithMemo, which runs
\* to its first `await connection.getSignaturesForAddress`
CreatePostResponseReturns ==
    /\ pc = "createPostResponse"
    /\ IF variant = "app" \/ ValidPayloadAndPrompt(prompt)
       THEN /\ responses' = Append(responses, Response(200, "", transaction))
            /\ watcher' = "polling"
            /\ watchMemo' = memo
            /\ checkCount' = 0
            /\ pc' = "getSignaturesForAddress"
       ELSE /\ responses' = Append(responses,
                   Response(400, "Invalid payload or prompt", EmptyTransaction))
            /\ pc' = "done"
            /\ UNCHANGED <<watcher, watchMemo, checkCount>>
    /\ UNCHANGED <<otherVars, variant, req, randomNumber, prompt, pre_memo, memo, safetyCheck, moderation,
                   user_account, mintingFee, transaction, lateWrites, errorLog,
                   ledger, polls, sleeps, transactionSignature, firstMatch,
                   pipelineVars>>

\* createPostResponse throws (the transaction cannot be serialized)
CreatePostResponseThrows ==
    /\ pc = "createPostResponse"
    /\ Catch(<<>>, "createPostResponse failed")
    /\ UNCHANGED <<otherVars, variant, req, randomNumber, prompt, pre_memo, memo, safetyCheck, moderation,
                   user_account, mintingFee, transaction, ledger, watcherVars,
                   pipelineVars>>

----------------------------------------------------------------------------
(* The ledger and the payment watcher *)

Min(a, b) == IF a < b THEN a ELSE b

\* Signatures are numbered in the order the transactions were confirmed;
\* the ledger lists the newest first.
SignatureAt(l, i) == Len(l) - i + 1

\* connection.getSignaturesForAddress(userAccount, {limit}): the `limit`
\* most recent entries, newest first
getSignaturesForAddress(l, limit) ==
    [i \in 1..Min(limit, Len(l)) |-> [signature |-> SignatureAt(l, i), memo |-> l[i]]]

\* variation: the memo column must equal the target
MemoMatches_exact(sigInfo, target) == sigInfo.memo = target

\* the test of the `if` inside the for loop
MemoMatches(sigInfo, target) ==
    Truthy(sigInfo.memo) /\ Includes(sigInfo.memo, target)

\* the for loop over the returned signatures: the signature it returns, or
\* NullSignature when it runs to its end
RECURSIVE ScanSignatures(_, _)
ScanSignatures(signatures, target) ==
    IF signatures = <<>> THEN NullSignature
    ELSE IF MemoMatches(Head(signatures), target) THEN Head(signatures).signature
    ELSE ScanSignatures(Tail(signatures), target)

\* a transaction of the paying account is confirmed on the ledger
AddLedgerTx(m) ==
    /\ pc \in {"idle", "getSignaturesForAddress", "sleep"}
    /\ Len(ledger) < MaxLedger
    /\ ledger' = <<m>> \o ledger
    /\ UNCHANGED <<otherVars, handlerVars, watcherVars, pipelineVars>>

\* variation: the loop bound is off by one
LoopContinues_offByOne(count) == count <= maxChecks

\* `while (checkCount < maxChecks)`
LoopContinues(count) == count < maxChecks

\* `if (checkCount < maxChecks)` in front of the 5 second wait
WaitsBeforeNextCheck(count) == count < maxChecks

\* variation: the result of the watcher is not tested
PaymentFound_always(signature) == TRUE

\* `if (transactionSignature)` of processPostTransaction
PaymentFound(signature) == signature # NullSignature

\* History of the watcher, kept apart from the loop it observes: a memo
\* column carries the target when it is a non-empty string with the target
\* at some offset.
CarriesTarget(memoColumn, target) ==
    /\ memoColumn # Null
    /\ Len(memoColumn) > 0
    /\ \E offset \in 0..(Len(memoColumn) - Len(target)) :
          \A k \in 1..Len(target) : memoColumn[offset + k] = target[k]

\* the first entry, over all polls, that a poll returned and that carries
\* the target
RecordFirstMatch(signatures, pollNumber) ==
    IF firstMatch.poll = 0 /\ \E i \in DOMAIN signatures : CarriesTarget(signatures[i].memo, watchMemo)
    THEN LET i == CHOOSE i \in DOMAIN signatures :
                      /\ CarriesTarget(signatures[i].memo, watchMemo)
                      /\ \A j \in 1..(i - 1) : ~CarriesTarget(signatures[j].memo, watchMemo)
         IN  [poll |-> pollNumber, signature |-> signatures[i].signature]
    ELSE firstMatch

\* findTransactionWithMemo returns `signature` to processPostTransaction:
\* with a payment the first stage is called, without one it logs and returns
\* and the handler is finished
WatcherReturns(signature) ==
    /\ transactionSignature' = signature
    /\ watcher' = IF signature # NullSignature THEN "found" ELSE "absent"
    /\ IF PaymentFound(signature)
       THEN /\ called' = Append(called, "generatePrompt")
            /\ pc' = "generatePrompt"
       ELSE /\ called' = called
            /\ pc' = "done"

\* the top of the while loop: poll again, or leave the loop and return null
WhileLoop(count) ==
    IF LoopContinues(count)
    THEN /\ pc' = "getSignaturesForAddress"
         /\ UNCHANGED <<watcher, transactionSignature, called>>
    ELSE WatcherReturns(NullSignature)

\* getSignaturesForAddress returns: one pass of the while loop, from the
\* answer of the poll to the next await (the 5 second wait) or to the return
\* of findTransactionWithMemo
Poll ==
    /\ pc = "getSignaturesForAddress"
    /\ LET signatures == getSignaturesForAddress(ledger, SigLimit)
           found == ScanSignatures(signatures, watchMemo)
       IN  /\ polls' = Append(polls, SigLimit)
           /\ firstMatch' = RecordFirstMatch(signatures, Len(polls) + 1)
           /\ IF found # NullSignature
              THEN /\ WatcherReturns(found)
                   /\ UNCHANGED <<checkCount, sleeps>>
              ELSE /\ checkCount' = checkCount + 1
                   /\ IF WaitsBeforeNextCheck(checkCount + 1)
                      THEN /\ sleeps' = sleeps + 1
                           /\ pc' = "sleep"
                           /\ UNCHANGED <<watcher, transactionSignature, called>>
                      ELSE /\ WhileLoop(checkCount + 1)
                           /\ UNCHANGED sleeps
    /\ UNCHANGED <<otherVars, variant, req, randomNumber, prompt, pre_memo, memo, safetyCheck, moderation,
                   user_account, mintingFee, transaction, responses, lateWrites,
                   errorLog, ledger, watchMemo, returned, failed, CONFIG,
                   imagePath, files, unlinkPending, imageUri, metadataUri,
                   uploads, assets, newAssetAddress, transfers>>

\* getSignaturesForAddress throws: nothing in findTransactionWithMemo or in
\* processPostTransaction catches it, so it reaches the outer catch block
PollThrows ==
    /\ pc = "getSignaturesForAddress"
    /\ watcher' = "threw"
    /\ Catch(<<>>, "failed to get signatures for address")
    /\ UNCHANGED <<otherVars, variant, req, randomNumber, prompt, pre_memo, memo, safetyCheck, moderation,
                   user_account, mintingFee, transaction, ledger, watchMemo,
                   checkCount, polls, sleeps, transactionSignature, firstMatch,
                   pipelineVars>>

\* the 5 second wait is over: back to the top of the while loop
Sleep ==
    /\ pc = "sleep"
    /\ WhileLoop(checkCount)
    /\ UNCHANGED <<otherVars, variant, req, randomNumber, prompt, pre_memo, memo, safetyCheck, moderation,
                   user_account, mintingFee, transaction, responses, lateWrites,
                   errorLog, ledger, watchMemo, checkCount, polls, sleeps,
                   firstMatch, returned, failed, CONFIG, imagePath, files,
                   unlinkPending, imageUri, metadataUri, uploads, assets,
                   newAssetAddress, transfers>>

----------------------------------------------------------------------------
(* The post-payment pipeline of processPostTransaction *)

\* the order in which processPostTransaction calls the stages
StageOrder == <<"generatePrompt", "defineConfig", "imagine", "createURI",
                "createAsset", "transferNFT">>

\* titles the language model gives the image (CONFIG.imgName)
Titles == {"Fox"}

\* what an uploader call can resolve to
UploadResults == {UndefinedUri, "", "https://arweave.net/abc"}

\* variation: only a missing URI is refused, an empty one is accepted
Falsy_undefinedOnly(uri) == uri = UndefinedUri

\* `!uri`
Falsy(uri) == uri = UndefinedUri \/ uri = ""

\* A stage throws: its own catch block, when it has one, logs (`ownLogs`),
\* the catch block of processPostTransaction logs and rethrows, the outer
\* catch block runs.
StageThrows(stage, ownLogs) ==
    /\ failed' = stage
    /\ Catch(ownLogs \o <<"An error occurred in the post-transaction process:">>,
             "stage failed: " \o stage)

unchangedByStage == <<otherVars, variant, req, randomNumber, prompt, pre_memo, memo, safetyCheck, moderation,
                      user_account, mintingFee, transaction, ledger,
                      watcherVars>>

\* variation: an error of the stage is logged and the pipeline goes on
GeneratePrompt_swallows(ok) ==
    /\ pc = "generatePrompt"
    /\ failed' = IF ok THEN failed ELSE "generatePrompt"
    /\ errorLog' = IF ok THEN errorLog ELSE Append(errorLog, "An error occurred in the post-transaction process:")
    /\ returned' = IF ok THEN Append(returned, "generatePrompt") ELSE returned
    /\ called' = Append(called, "defineConfig")
    /\ pc' = "defineConfig"
    /\ UNCHANGED <<unchangedByStage, responses, lateWrites, CONFIG, imagePath,
                   files, unlinkPending, imageUri, metadataUri, uploads, assets,
                   newAssetAddress, transfers>>

GeneratePrompt(ok) ==
    /\ pc = "generatePrompt"
    /\ IF ok
       THEN /\ returned' = Append(returned, "generatePrompt")
            /\ called' = Append(called, "defineConfig")
            /\ pc' = "defineConfig"
            /\ UNCHANGED <<failed, responses, lateWrites, errorLog>>
       ELSE /\ StageThrows("generatePrompt", <<>>)
            /\ UNCHANGED <<called, returned>>
    /\ UNCHANGED <<unchangedByStage, CONFIG, imagePath, files, unlinkPending,
                   imageUri, metadataUri, uploads, assets, newAssetAddress,
                   transfers>>

DefineConfig(ok, title) ==
    /\ pc = "defineConfig"
    /\ IF ok
       THEN /\ CONFIG' = [imgName |-> title]
            /\ returned' = Append(returned, "defineConfig")
            /\ called' = Append(called, "imagine")
            /\ pc' = "imagine"
            /\ UNCHANGED <<failed, responses, lateWrites, errorLog>>
       ELSE /\ StageThrows("defineConfig", <<>>)
            /\ UNCHANGED <<called, returned, CONFIG>>
    /\ UNCHANGED <<unchangedByStage, imagePath, files, unlinkPending,
                   imageUri, metadataUri, uploads, assets, newAssetAddress,
                   transfers>>

\* path.join(CONFIG.uploadPath, `${CONFIG.imgName}_${randomNumber}.png`)
ImagePath(config, rnd) == <<config.imgName, rnd>>

\* imagine returns after writing the image file, or throws before writing;
\* on return createURI is called and runs to `await readFile`
Imagine(ok) ==
    /\ pc = "imagine"
    /\ IF ok
       THEN /\ files' = files \cup {ImagePath(CONFIG, randomNumber)}
            /\ imagePath' = ImagePath(CONFIG, randomNumber)
            /\ returned' = Append(returned, "imagine")
            /\ called' = Append(called, "createURI")
            /\ pc' = "createURI.readFile"
            /\ UNCHANGED <<failed, responses, lateWrites, errorLog>>
       ELSE /\ StageThrows("imagine", <<"Error in createImage:">>)
            /\ UNCHANGED <<called, returned, files, imagePath>>
    /\ UNCHANGED <<unchangedByStage, CONFIG, unlinkPending, imageUri,
                   metadataUri, uploads, assets, newAssetAddress, transfers>>

\* createURI: promise.readFile(imagePath) returns and the image upload is
\* started, or readFile throws
CreateURIReadFile(ok) ==
    /\ pc = "createURI.readFile"
    /\ IF ok /\ imagePath \in files
       THEN /\ uploads' = Append(uploads, "image")
            /\ pc' = "createURI.upload"
            /\ UNCHANGED <<failed, responses, lateWrites, errorLog>>
       ELSE /\ StageThrows("createURI", <<"Error in createURI:">>)
            /\ UNCHANGED uploads
    /\ UNCHANGED <<unchangedByStage, called, returned, CONFIG, imagePath,
                   files, unlinkPending, imageUri, metadataUri, assets,
                   newAssetAddress, transfers>>

\* createURI: umi.uploader.upload resolves to [imageUri]; `if (!imageUri)`
\* throws, otherwise the metadata upload is started
CreateURIUpload(uri) ==
    /\ pc = "createURI.upload"
    /\ imageUri' = uri
    /\ IF Falsy(uri)
       THEN /\ StageThrows("createURI", <<"Error in createURI:">>)
            /\ UNCHANGED uploads
       ELSE /\ uploads' = Append(uploads, "json")
            /\ pc' = "createURI.uploadJson"
            /\ UNCHANGED <<failed, responses, lateWrites, errorLog>>
    /\ UNCHANGED <<unchangedByStage, called, returned, CONFIG, imagePath,
                   files, unlinkPending, metadataUri, assets, newAssetAddress,
                   transfers>>

\* createURI: umi.uploader.uploadJson resolves; `if (!metadataUri)` throws,
\* otherwise createURI returns, processPostTransaction hands the image file
\* to fs.unlink and calls createAsset
CreateURIUploadJson(uri) ==
    /\ pc = "createURI.uploadJson"
    /\ metadataUri' = uri
    /\ IF Falsy(uri)
       THEN /\ StageThrows("createURI", <<"Error in createURI:">>)
            /\ UNCHANGED <<called, returned, unlinkPending>>
       ELSE /\ returned' = Append(returned, "createURI")
            /\ unlinkPending' = unlinkPending \cup {imagePath}
            /\ called' = Append(called, "createAsset")
            /\ pc' = "createAsset"
            /\ UNCHANGED <<failed, responses, lateWrites, errorLog>>
    /\ UNCHANGED <<unchangedByStage, CONFIG, imagePath, files, imageUri,
                   uploads, assets, newAssetAddress, transfers>>

\* createURI: one of the two uploader calls rejects
CreateURIUploaderThrows ==
    /\ pc \in {"createURI.upload", "createURI.uploadJson"}
    /\ StageThrows("createURI", <<"Error in createURI:">>)
    /\ UNCHANGED <<unchangedByStage, called, returned, CONFIG, imagePath,
                   files, unlinkPending, imageUri, metadataUri, uploads,
                   assets, newAssetAddress, transfers>>

\* the deletion asked of fs.unlink happens (or fails, leaving the file)
UnlinkCompletes(path, ok) ==
    /\ path \in unlinkPending
    /\ unlinkPending' = unlinkPending \ {path}
    /\ files' = IF ok THEN files \ {path} ELSE files
    /\ errorLog' = IF ok THEN errorLog
                   ELSE Append(errorLog, "Failed to delete the local image file:")
    /\ UNCHANGED <<otherVars, variant, pc, req, randomNumber, prompt, pre_memo, memo, safetyCheck, moderation,
                   user_account, mintingFee, transaction, responses, lateWrites,
                   ledger, watcherVars, called, returned, failed, CONFIG,
                   imagePath, imageUri, metadataUri, uploads, assets,
                   newAssetAddress, transfers>>

\* variation: the token is transferred to the service's own wallet
TransferV1Input_toMinter(assetAddress, account) ==
    [asset |-> PublicKey(assetAddress), newOwner |-> MinterKey]

\* transferNFT(new PublicKey(newAssetAddress), user_account): the input it
\* gives transferV1
TransferV1Input(assetAddress, account) ==
    [asset |-> PublicKey(assetAddress), newOwner |-> account]

\* createAsset: create(umi, {asset: assetSigner, ...}).sendAndConfirm(umi)
\* for a freshly generated signer `key` returns, and transferNFT is called
\* with the returned address; or it throws
CreateAsset(ok, key) ==
    /\ pc = "createAsset"
    /\ key \in AssetKeys \ {a.asset : a \in assets}
    /\ IF ok
       THEN /\ assets' = assets \cup {[asset |-> key, name |-> CONFIG.imgName,
                                        uri |-> metadataUri, owner |-> MinterKey]}
            /\ newAssetAddress' = Base58(key)
            /\ returned' = Append(returned, "createAsset")
            /\ called' = Append(called, "transferNFT")
            /\ transfers' = Append(transfers, TransferV1Input(Base58(key), user_account))
            /\ pc' = "transferNFT"
            /\ UNCHANGED <<failed, responses, lateWrites, errorLog>>
       ELSE /\ StageThrows("createAsset", <<"Error in createAsset:">>)
            /\ UNCHANGED <<called, returned, assets, newAssetAddress, transfers>>
    /\ UNCHANGED <<unchangedByStage, CONFIG, imagePath, files, unlinkPending,
                   imageUri, metadataUri, uploads>>

\* variation: transferNFT returns without a transfer having happened
TransferNFT_notSubmitted(ok) ==
    /\ pc = "transferNFT"
    /\ IF ok
       THEN /\ returned' = Append(returned, "transferNFT")
            /\ pc' = "done"
            /\ UNCHANGED <<failed, responses, lateWrites, errorLog>>
       ELSE /\ StageThrows("transferNFT", <<"Error transferring NFT to user:">>)
            /\ UNCHANGED returned
    /\ UNCHANGED <<unchangedByStage, called, CONFIG, imagePath, files,
                   unlinkPending, imageUri, metadataUri, uploads, assets,
                   newAssetAddress, transfers>>

\* transferNFT: transferV1(...).sendAndConfirm(umi) returns or throws
TransferNFT(ok) ==
    /\ pc = "transferNFT"
    /\ IF ok
       THEN /\ assets' = {IF a.asset = transfers[Len(transfers)].asset
                          THEN [a EXCEPT !.owner = transfers[Len(transfers)].newOwner]
                          ELSE a : a \in assets}
            /\ returned' = Append(returned, "transferNFT")
            /\ pc' = "done"
            /\ UNCHANGED <<failed, responses, lateWrites, errorLog>>
       ELSE /\ StageThrows("transferNFT", <<"Error transferring NFT to user:">>)
            /\ UNCHANGED <<returned, assets>>
    /\ UNCHANGED <<unchangedByStage, called, CONFIG, imagePath, files,
                   unlinkPending, imageUri, metadataUri, uploads,
                   newAssetAddress, transfers>>

----------------------------------------------------------------------------
(* Specification *)

Next ==
    \/ \E q_prompt \in QueryPrompts, q_memo \in QueryMemos,
          account \in BodyAccounts, rnd \in RandomNumbers :
            Receive(q_prompt, q_memo, account, rnd)
    \/ \E answer \in ClassifierAnswers("app") \cup ClassifierAnswers("part") :
          SafePromptingReturns(answer)
    \/ SafePromptingThrows
    \/ \E ok \in BOOLEAN : GetLatestBlockhash(ok)
    \/ \E answer \in PriceAnswers : GetFeeInLamports(answer)
    \/ CreatePostResponseReturns
    \/ CreatePostResponseThrows
    \/ \E m \in LedgerMemos : AddLedgerTx(m)
    \/ Poll
    \/ PollThrows
    \/ Sleep
    \/ \E ok \in BOOLEAN : GeneratePrompt(ok)
    \/ \E ok \in BOOLEAN, title \in Titles : DefineConfig(ok, title)
    \/ \E ok \in BOOLEAN : Imagine(ok)
    \/ \E ok \in BOOLEAN : CreateURIReadFile(ok)
    \/ \E uri \in UploadResults : CreateURIUpload(uri)
    \/ \E uri \in UploadResults : CreateURIUploadJson(uri)
    \/ CreateURIUploaderThrows
    \/ \E path \in unlinkPending, ok \in BOOLEAN : UnlinkCompletes(path, ok)
    \/ \E ok \in BOOLEAN, key \in AssetKeys : CreateAsset(ok, key)
    \/ \E ok \in BOOLEAN : TransferNFT(ok)

Spec == Init /\ [][Next]_vars

----------------------------------------------------------------------------
(* The retrying transferNFT, with the end of the handler that mints and then
   calls it (src/src/app.ts:906-1010 and 1216-1237).  The 200 has been sent
   and the stages before the mint have returned when this part starts. *)

\* the default of the parameter maxRetries
maxRetries == 10

\* for (let attempt = 1; attempt <= maxRetries; attempt++)
TransferLoopContinues_offByOne(attempt) == attempt <= maxRetries + 1
TransferLoopContinues(attempt) == attempt <= maxRetries

\* if (attempt === maxRetries) throw error
ExhaustedRetries(attempt) == attempt = maxRetries

\* what getAccountInfo, getTokenAccountsByOwner and sendAndConfirmTransaction
\* can answer
AccountInfoAnswers == {"null", "info", "throws"}
TokenAccountAnswers == {"empty", "owned", "throws"}
ConfirmAnswers == {"confirmed", "err", "throws"}

unchangedByTransfer == <<handlerVars, ledger, watcherVars, pipelineVars, pairVars,
    fileVars,
    earlyVars,
    feeVars>>

\* the catch block of the handler: it logs the error and writes a 400 on the
\* response that already went out
HandlerCatch_mintsAgain(message) ==
    /\ t_handlerLog' = message
    /\ t_lateWrites' = t_lateWrites + 1
    /\ t_pc' = IF t_mints > 0 THEN "create" ELSE "done"
HandlerCatch(message) ==
    /\ t_handlerLog' = message
    /\ t_lateWrites' = t_lateWrites + 1
    /\ t_pc' = "done"

\* the head of the for loop; past the last attempt the function throws
EnterLoop(attempt) ==
    IF TransferLoopContinues(attempt)
    THEN /\ t_attempt' = attempt
         /\ t_mintSeen' = FALSE
         /\ t_ownerSeen' = FALSE
         /\ t_pc' = "getAccountInfo"
         /\ UNCHANGED <<t_result, t_handlerLog, t_lateWrites>>
    ELSE /\ t_result' = "threw"
         /\ HandlerCatch("Failed to transfer NFT after multiple attempts")
         /\ UNCHANGED <<t_attempt, t_mintSeen, t_ownerSeen>>

\* the catch block inside the loop
CatchBlock(message) ==
    /\ t_errors' = t_errors + 1
    /\ IF ExhaustedRetries(t_attempt)
       THEN /\ t_result' = "threw"
            /\ HandlerCatch(message)
            /\ UNCHANGED t_sleeps
       ELSE /\ t_pc' = "sleep"
            /\ t_sleeps' = t_sleeps + 1
            /\ UNCHANGED <<t_result, t_handlerLog, t_lateWrites>>

\* the handler reaches the mint: it calls mintProgrammableNft, which awaits
\* the create builder
CallMintProgrammableNft ==
    /\ t_pc = "idle"
    /\ t_pc' = "create"
    /\ UNCHANGED <<t_attempt, t_mints, t_mintSeen, t_ownerSeen, t_submitted,
                   t_confirmed, t_sleeps, t_errors, t_result, t_handlerLog,
                   t_lateWrites, unchangedByTransfer>>

\* the create builder returns and the creation is submitted, or it throws
MintCreate(ok) ==
    /\ t_pc = "create"
    /\ IF ok
       THEN /\ t_mints' = t_mints + 1
            /\ t_pc' = "mint.sendAndConfirmTransaction"
            /\ UNCHANGED <<t_errors, t_handlerLog, t_lateWrites>>
       ELSE /\ t_errors' = t_errors + 1
            /\ HandlerCatch("create failed")
            /\ UNCHANGED t_mints
    /\ UNCHANGED <<t_attempt, t_mintSeen, t_ownerSeen, t_submitted, t_confirmed,
                   t_sleeps, t_result, unchangedByTransfer>>

\* the creation is confirmed and transferNFT is called, or the confirmation
\* throws.  (A mint address that is undefined makes line 933 throw, so the
\* test of line 1218 is never true.)
MintSendAndConfirm(ok) ==
    /\ t_pc = "mint.sendAndConfirmTransaction"
    /\ IF ok
       THEN /\ EnterLoop(1)
            /\ UNCHANGED t_errors
       ELSE /\ t_errors' = t_errors + 1
            /\ HandlerCatch("mint confirmation failed")
            /\ UNCHANGED <<t_attempt, t_mintSeen, t_ownerSeen, t_result>>
    /\ UNCHANGED <<t_mints, t_submitted, t_confirmed, t_sleeps,
                   unchangedByTransfer>>

GetAccountInfo(answer) ==
    /\ t_pc = "getAccountInfo"
    /\ CASE answer = "null" ->
              /\ t_pc' = "sleep"
              /\ t_sleeps' = t_sleeps + 1
              /\ UNCHANGED <<t_mintSeen, t_errors, t_result, t_handlerLog,
                             t_lateWrites>>
         [] answer = "info" ->
              /\ t_mintSeen' = TRUE
              /\ t_pc' = "getTokenAccountsByOwner"
              /\ UNCHANGED <<t_sleeps, t_errors, t_result, t_handlerLog,
                             t_lateWrites>>
         [] OTHER ->
              /\ CatchBlock("getAccountInfo failed")
              /\ UNCHANGED t_mintSeen
    /\ UNCHANGED <<t_attempt, t_mints, t_ownerSeen, t_submitted, t_confirmed,
                   unchangedByTransfer>>

GetTokenAccountsByOwner_unchecked(answer) ==
    /\ t_pc = "getTokenAccountsByOwner"
    /\ CASE answer = "owned" ->
              /\ t_ownerSeen' = TRUE
              /\ t_pc' = "transfer"
              /\ UNCHANGED <<t_sleeps, t_errors, t_result, t_handlerLog,
                             t_lateWrites>>
         [] answer = "empty" ->
              /\ t_pc' = "transfer"
              /\ UNCHANGED <<t_ownerSeen, t_sleeps, t_errors, t_result,
                             t_handlerLog, t_lateWrites>>
         [] OTHER ->
              /\ CatchBlock("getTokenAccountsByOwner failed")
              /\ UNCHANGED t_ownerSeen
    /\ UNCHANGED <<t_attempt, t_mints, t_mintSeen, t_submitted, t_confirmed,
                   unchangedByTransfer>>
GetTokenAccountsByOwner(answer) ==
    /\ t_pc = "getTokenAccountsByOwner"
    /\ CASE answer = "empty" ->
              /\ CatchBlock("Sender does not own the NFT")
              /\ UNCHANGED t_ownerSeen
         [] answer = "owned" ->
              /\ t_ownerSeen' = TRUE
              /\ t_pc' = "transfer"
              /\ UNCHANGED <<t_sleeps, t_errors, t_result, t_handlerLog,
                             t_lateWrites>>
         [] OTHER ->
              /\ CatchBlock("getTokenAccountsByOwner failed")
              /\ UNCHANGED t_ownerSeen
    /\ UNCHANGED <<t_attempt, t_mints, t_mintSeen, t_submitted, t_confirmed,
                   unchangedByTransfer>>

\* the transfer builder returns and the transfer is submitted, or it throws
TransferBuilder(ok) ==
    /\ t_pc = "transfer"
    /\ IF ok
       THEN /\ t_submitted' = t_submitted + 1
            /\ t_pc' = "sendAndConfirmTransaction"
            /\ UNCHANGED <<t_sleeps, t_errors, t_result, t_handlerLog,
                           t_lateWrites>>
       ELSE /\ CatchBlock("transfer builder failed")
            /\ UNCHANGED t_submitted
    /\ UNCHANGED <<t_attempt, t_mints, t_mintSeen, t_ownerSeen, t_confirmed,
                   unchangedByTransfer>>

TransferSendAndConfirm(answer) ==
    /\ t_pc = "sendAndConfirmTransaction"
    /\ CASE answer = "confirmed" ->
              /\ t_confirmed' = t_confirmed + 1
              /\ t_result' = "returned"
              /\ t_pc' = "done"
              /\ UNCHANGED <<t_sleeps, t_errors, t_handlerLog, t_lateWrites>>
         [] answer = "err" ->
              /\ CatchBlock("Failed to confirm transfer transaction")
              /\ UNCHANGED t_confirmed
         [] OTHER ->
              /\ CatchBlock("sendAndConfirmTransaction failed")
              /\ UNCHANGED t_confirmed
    /\ UNCHANGED <<t_attempt, t_mints, t_mintSeen, t_ownerSeen, t_submitted,
                   unchangedByTransfer>>

\* sleep(retryDelay) is over: attempt++ and the test of the loop
RetrySleep ==
    /\ t_pc = "sleep"
    /\ EnterLoop(t_attempt + 1)
    /\ UNCHANGED <<t_mints, t_submitted, t_confirmed, t_sleeps, t_errors,
                   unchangedByTransfer>>

NextTransfer ==
    \/ CallMintProgrammableNft
    \/ \E ok \in BOOLEAN : MintCreate(ok)
    \/ \E ok \in BOOLEAN : MintSendAndConfirm(ok)
    \/ \E answer \in AccountInfoAnswers : GetAccountInfo(answer)
    \/ \E answer \in TokenAccountAnswers : GetTokenAccountsByOwner(answer)
    \/ \E ok \in BOOLEAN : TransferBuilder(ok)
    \/ \E answer \in ConfirmAnswers : TransferSendAndConfirm(answer)
    \/ RetrySleep

SpecTransfer == Init /\ [][NextTransfer]_vars

----------------------------------------------------------------------------
(* Two requests in flight at once over one ledger.  Each request is taken
   from its acceptance (the 200 was sent, src/src/app.ts:453-520) through the
   polls of its own findTransactionWithMemo (337-372) to the test of
   processPostTransaction (533-537); the calls made before the response are
   taken to have succeeded. *)

MaxChain == 2

\* the wallet whose transactions the ledger of this specification holds
PayerKey == 2

PairAccounts == {"Wal222", "Wal333"}
PairMemos == {<<"a">>, <<"a", "1">>}
PairRandoms == {1, 2, 12}

\* a confirmed transaction of the payer: the memo column the RPC node shows
\* for it, whether it failed, and the lamports it moved from the payer to the
\* minter
ChainTx(memoColumn, err, lamports) ==
    [memo |-> memoColumn, err |-> err, lamports |-> lamports]

ChainTxs ==
    { ChainTx(<<"[", "2", "]", " ", "a", "1">>, FALSE, FallbackLamports),
      ChainTx(<<"[", "2", "]", " ", "a", "1">>, TRUE, 0),
      ChainTx(<<"[", "2", "]", " ", "a", "1">>, FALSE, 0),
      ChainTx(<<"[", "3", "]", " ", "a", "1", "2">>, FALSE, FallbackLamports) }

\* the memo column of the transactions of an account, newest first: what
\* getSignaturesForAddress reads of them besides the signature
MemoColumn(c, account) ==
    IF account = PayerKey THEN [i \in DOMAIN c |-> c[i].memo] ELSE <<>>

\* the transaction with the given signature
TxOf(c, signature) == c[Len(c) - signature + 1]

unchangedByPair == <<handlerVars, ledger, watcherVars, pipelineVars, transferVars,
    fileVars,
    earlyVars,
    feeVars>>

\* the handler takes a request up to res.status(200).json(payload) and
\* starts the watcher
PairAccept(r, account, q_memo, rnd) ==
    /\ rq[r].phase = "none"
    /\ rq' = [rq EXCEPT ![r] =
                [phase |-> "polling",
                 account |-> PublicKey(account),
                 memo |-> SaltedMemo(Trim(OrEmpty(q_memo)), rnd),
                 fee |-> FallbackLamports,
                 checkCount |-> 0,
                 signature |-> NullSignature]]
    /\ UNCHANGED <<chain, unchangedByPair>>

\* a transaction of the payer is confirmed
PairConfirm(tx) ==
    /\ Len(chain) < MaxChain
    /\ chain' = <<tx>> \o chain
    /\ UNCHANGED <<rq, unchangedByPair>>

\* one pass of the while loop of the watcher of request r, with the wait
\* that follows it; on a match processPostTransaction goes on to the stages
PairPoll(r) ==
    /\ rq[r].phase = "polling"
    /\ LET signatures == getSignaturesForAddress(MemoColumn(chain, rq[r].account), SigLimit)
           found == ScanSignatures(signatures, rq[r].memo)
       IN  rq' = [rq EXCEPT ![r] =
                    IF found # NullSignature
                    THEN [@ EXCEPT !.signature = found,
                                   !.phase = IF PaymentFound(found) THEN "stages" ELSE "absent"]
                    ELSE [@ EXCEPT !.checkCount = @ + 1,
                                   !.phase = IF LoopContinues(rq[r].checkCount + 1)
                                             THEN "polling" ELSE "absent"]]
    /\ UNCHANGED <<chain, unchangedByPair>>

NextPair ==
    \/ \E r \in Reqs, account \in PairAccounts, q_memo \in PairMemos,
          rnd \in PairRandoms : PairAccept(r, account, q_memo, rnd)
    \/ \E tx \in ChainTxs : PairConfirm(tx)
    \/ \E r \in Reqs : PairPoll(r)

SpecPair == Init /\ [][NextPair]_vars

----------------------------------------------------------------------------
(* Properties *)

\* the base58 texts that are wallet addresses
WellFormedAccounts == {Base58(k) : k \in Keys}

\* the first response of the request is the 200 that carries the transaction
Accepted == Len(responses) >= 1 /\ responses[1].status = 200

\* the request was answered with one error response of the given status
RejectedWith(status) ==
    /\ Len(responses) = 1
    /\ responses[1].status = status
    /\ responses[1].error # ""
    /\ responses[1].transaction = EmptyTransaction

\* no transaction was built, no poll made, no stage started
NothingStarted ==
    /\ transaction.instructions = <<>>
    /\ watcher = "idle"
    /\ watchMemo = Null
    /\ polls = <<>>
    /\ called = <<>>
    /\ assets = {}
    /\ transfers = <<>>

\* C1: when the safety gate returns a verdict other than 'safe', the handler
\* answers 400 with an error body and is finished; no transaction was built
\* or returned, the ledger was never polled and no stage was started.
C1_UnsafeRejected ==
    (safetyCheck # "" /\ safetyCheck # "safe") =>
        /\ pc = "done"
        /\ RejectedWith(400)
        /\ NothingStarted

C1_Witness ==
    /\ safetyCheck \in {"unsafe", "maybe"}
    /\ req.account \in WellFormedAccounts
    /\ pc = "done"

\* C2 as stated: a finished request whose body.account is not a wallet
\* address was answered 400, the watcher was not invoked and no transaction
\* was built.
C2_Original ==
    (pc = "done" /\ req.account \notin WellFormedAccounts) =>
        /\ RejectedWith(400)
        /\ NothingStarted

\* C2: a request whose body.account is not a wallet address never gets past
\* the account check: the watcher is not invoked, no transaction is built,
\* and the one response is an error: 400, except that the part_000 build
\* answers 500 when the safety gate itself threw.
C2_MalformedAccountRejected ==
    (pc # "idle" /\ req.account \notin WellFormedAccounts) =>
        /\ pc \in {"safePrompting", "done"}
        /\ NothingStarted
        /\ pc = "done" =>
              IF variant = "part" /\ safetyCheck = ""
              THEN RejectedWith(500)
              ELSE RejectedWith(400)

C2_Witness ==
    /\ pc = "done"
    /\ req.account \notin WellFormedAccounts
    /\ safetyCheck = "safe"
    /\ RejectedWith(400)

\* t is s without its leading and trailing white space
IsTrimOf(t, s) ==
    \E i \in 0..Len(s) :
        /\ i + Len(t) <= Len(s)
        /\ \A k \in 1..i : s[k] \in {" ", "\t", "\n"}
        /\ \A k \in (i + Len(t) + 1)..Len(s) : s[k] \in {" ", "\t", "\n"}
        /\ \A k \in 1..Len(t) : t[k] = s[i + k]
        /\ t # <<>> => t[1] \notin {" ", "\t", "\n"} /\ t[Len(t)] \notin {" ", "\t", "\n"}
        /\ t = <<>> => i = Len(s)

DigitValue(c) ==
    CASE c = "0" -> 0 [] c = "1" -> 1 [] c = "2" -> 2 [] c = "3" -> 3
      [] c = "4" -> 4 [] c = "5" -> 5 [] c = "6" -> 6 [] c = "7" -> 7
      [] c = "8" -> 8 [] c = "9" -> 9

RECURSIVE DecimalValue(_)
DecimalValue(d) ==
    IF d = <<>> THEN 0
    ELSE 10 * DecimalValue(SubSeq(d, 1, Len(d) - 1)) + DigitValue(d[Len(d)])

\* d is the decimal numeral of n
IsDecimalOf(d, n) ==
    /\ d # <<>>
    /\ \A k \in DOMAIN d : d[k] \in {"0", "1", "2", "3", "4", "5", "6", "7", "8", "9"}
    /\ Len(d) > 1 => d[1] # "0"
    /\ DecimalValue(d) = n

ModelChars == {" ", "0", "1", "2", "3", "4", "5", "6", "7", "8", "9",
               "[", "]", "a", "f", "o", "p", "x", "{", "}"}

\* the text a utf-8 buffer holds
BufferToString(bytes) ==
    [i \in DOMAIN bytes |-> CHOOSE c \in ModelChars : CharCode(c) = bytes[i]]

\* the memo instructions of a transaction
MemoInstructions(tx) ==
    {i \in DOMAIN tx.instructions : tx.instructions[i].programId = "MEMO_PROGRAM_ID"}

\* C3: in an accepted request the memo given to the watcher is the text of
\* the memo instruction of the returned transaction, and it is the trimmed
\* query memo followed by the decimal numeral of the request's random number.
C3_MemoAgrees ==
    Accepted =>
        /\ watchMemo # Null
        /\ MemoInstructions(responses[1].transaction) # {}
        /\ \A i \in MemoInstructions(responses[1].transaction) :
              BufferToString(responses[1].transaction.instructions[i].data) = watchMemo
        /\ \E k \in 0..Len(watchMemo) :
              /\ IsTrimOf(SubSeq(watchMemo, 1, k), OrEmpty(req.memo))
              /\ IsDecimalOf(SubSeq(watchMemo, k + 1, Len(watchMemo)), randomNumber)

\* a padded query memo, and the payment found under the salted memo
C3_Witness ==
    /\ Accepted
    /\ req.memo # pre_memo
    /\ randomNumber = 1
    /\ watcher = "found"
    /\ watchMemo = <<"a", "1">>

\* C4: the watcher returns a signature exactly when some entry returned by
\* one of its polls carries the target in a non-empty memo; the signature is
\* that of the first such entry, and the poll that returned it is the last
\* poll made.  There are at most 10 polls, each asking for 5 signatures.
C4_WatcherMatch ==
    /\ watcher = "found" <=> firstMatch.poll # 0
    /\ watcher = "found" =>
          /\ transactionSignature = firstMatch.signature
          /\ transactionSignature # NullSignature
          /\ Len(polls) = firstMatch.poll
    /\ watcher = "absent" => transactionSignature = NullSignature
    /\ Len(polls) <= maxChecks
    /\ \A i \in DOMAIN polls : polls[i] = SigLimit

\* found in a later poll than the first, behind a newer entry without the target
C4_Witness ==
    /\ watcher = "found"
    /\ firstMatch.poll >= 2
    /\ SignatureAt(ledger, 1) # transactionSignature

\* C5: without a match the watcher returns null after exactly 10 polls of 5
\* signatures each: there is never an 11th poll, null is never returned
\* before the 10th, and after the 10th the watcher has returned.
C5_AbsentAfterTenPolls ==
    /\ Len(polls) <= maxChecks
    /\ watcher = "absent" =>
          /\ Len(polls) = maxChecks
          /\ checkCount = maxChecks
          /\ \A i \in DOMAIN polls : polls[i] = SigLimit
    /\ (Len(polls) = maxChecks /\ firstMatch.poll = 0) => watcher = "absent"
    /\ (watcher = "polling" /\ pc = "getSignaturesForAddress") => Len(polls) < maxChecks

C5_Witness ==
    /\ watcher = "absent"
    /\ Len(polls) = 10
    /\ Len(ledger) > 0

\* C6: a post-payment stage is invoked only after the watcher returned a
\* signature; when the watcher returns null the handler is finished with no
\* stage invoked, nothing logged as an error and no error raised.
C6_NoStageWithoutPayment ==
    /\ called # <<>> => (watcher = "found" /\ transactionSignature # NullSignature)
    /\ watcher = "absent" =>
          /\ pc = "done"
          /\ called = <<>>
          /\ failed = ""
          /\ errorLog = <<>>
          /\ lateWrites = 0
          /\ Len(responses) = 1
          /\ assets = {}
          /\ transfers = <<>>

C6_Witness ==
    /\ watcher = "absent"
    /\ pc = "done"

\* C7: whenever the watcher has been started or a poll has been made, the
\* 200 response with the transaction has already been sent; this is so
\* whether the payment is found or not.
C7_ResponseBeforePolling ==
    (watcher # "idle" \/ polls # <<>>) =>
        /\ Accepted
        /\ responses[1].transaction = transaction
        /\ transaction.instructions # <<>>

C7_Witness ==
    /\ watcher = "absent"
    /\ Accepted

IsPrefix(a, b) == Len(a) <= Len(b) /\ \A i \in DOMAIN a : a[i] = b[i]

\* C8: the stages are invoked in the order generatePrompt, defineConfig,
\* imagine, createURI, createAsset, transferNFT, each only after the one
\* before it returned normally; once a stage has thrown the handler is
\* finished and that stage is the last one invoked.
C8_StagesInOrder ==
    /\ IsPrefix(called, StageOrder)
    /\ IsPrefix(returned, called)
    /\ Len(called) <= Len(returned) + 1
    /\ failed # "" =>
          /\ pc = "done"
          /\ called # <<>>
          /\ called[Len(called)] = failed
          /\ Len(returned) = Len(called) - 1

C8_Witness ==
    /\ failed = "createURI"
    /\ returned = <<"generatePrompt", "defineConfig", "imagine">>

\* C9: every submitted transfer names the token this request's createAsset
\* created, and as new owner the wallet of body.account, which is the fee
\* payer and the source of the SOL transfer of the returned transaction.
C9_TransferToPayer ==
    \A i \in DOMAIN transfers :
        /\ \E a \in assets : a.asset = transfers[i].asset
        /\ transfers[i].asset \in AssetKeys
        /\ Base58(transfers[i].asset) = newAssetAddress
        /\ transfers[i].newOwner \in WalletKeys
        /\ Base58(transfers[i].newOwner) = req.account
        /\ Accepted
        /\ responses[1].transaction.feePayer = transfers[i].newOwner
        /\ \E j \in DOMAIN responses[1].transaction.instructions :
              /\ responses[1].transaction.instructions[j].programId = "SystemProgram.transfer"
              /\ responses[1].transaction.instructions[j].fromPubkey = transfers[i].newOwner

C9_Witness ==
    /\ transfers # <<>>
    /\ returned = StageOrder
    /\ \E a \in assets : a.owner = PublicKey(req.account)

\* C10: when the image upload or the metadata upload resolves to a missing
\* or empty URI, createURI throws; after such an image URI no metadata
\* upload is made; createAsset and transferNFT are not invoked and nothing
\* is minted or transferred.
C10_EmptyUriIsFatal ==
    /\ (imageUri \in {UndefinedUri, ""} \/ metadataUri \in {UndefinedUri, ""}) =>
          /\ failed = "createURI"
          /\ pc = "done"
          /\ called = <<"generatePrompt", "defineConfig", "imagine", "createURI">>
          /\ returned = <<"generatePrompt", "defineConfig", "imagine">>
          /\ assets = {}
          /\ transfers = <<>>
    /\ imageUri \in {UndefinedUri, ""} =>
          /\ uploads = <<"image">>
          /\ metadataUri = NotAssigned

C10_Witness ==
    /\ imageUri = ""
    /\ failed = "createURI"

\* C11: when every attempt of transferNFT fails, it throws, the handler logs
\* the error, and exactly one token creation was submitted for the request
C11_OneMintWhenTransferFails ==
    t_result = "threw" =>
        /\ t_handlerLog # ""
        /\ t_confirmed = 0
        /\ t_mints = 1

C11_Witness ==
    /\ t_result = "threw"
    /\ t_submitted = maxRetries
    /\ t_errors = maxRetries
    /\ t_mints = 1

\* C16: transferNFT makes at most maxRetries attempts, and the attempt whose
\* transfer is confirmed without error is the last: the function has returned
\* and no transfer is submitted after it
C16_BoundedAttempts ==
    /\ t_attempt <= maxRetries
    /\ t_submitted <= maxRetries
    /\ t_confirmed <= 1
    /\ t_confirmed = 1 => t_result = "returned" /\ t_pc = "done"
    /\ t_result = "returned" => t_confirmed = 1

C16_Witness ==
    /\ t_result = "returned"
    /\ t_attempt = maxRetries
    /\ t_submitted > 1

\* the request is past the point where the handler writes its first response
PastResponse ==
    pc \notin {"idle", "safePrompting", "getLatestBlockhash", "getFeeInLamports",
               "createPostResponse"}

\* the messages of the errors thrown by the calls made before the response
GateErrors == {"safety check request failed", "Failed to check prompt safety."}
BlockhashErrors == {"failed to get recent blockhash"}
SerializationErrors == {"createPostResponse failed"}
PreResponseErrors == GateErrors \cup BlockhashErrors \cup SerializationErrors
PollErrors == {"failed to get signatures for address"}

Logged(messages) == \E i \in DOMAIN errorLog : errorLog[i] \in messages

\* the prompt is empty, blank or the unfilled placeholder
UnusablePrompt ==
    \/ \A i \in DOMAIN prompt : prompt[i] \in {" ", "\t", "\n"}
    \/ prompt = <<"{", "p", "}">>

\* the gate gave a verdict and it is not 'safe'
JudgedUnsafe == safetyCheck \notin {"", "safe"}

\* the statement of C12 as written: safe prompt, valid account and successful
\* calls give the 200 with transaction and message, and a 400 is only ever
\* the answer to an unsafe prompt or an invalid account
C12_Original ==
    /\ (safetyCheck = "safe" /\ req.account \in WellFormedAccounts
            /\ PastResponse /\ ~Logged(PreResponseErrors)) =>
          /\ Accepted
          /\ responses[1].transaction.instructions # <<>>
          /\ responses[1].message # ""
    /\ (Len(responses) >= 1 /\ responses[1].status = 400) =>
          (JudgedUnsafe \/ req.account \notin WellFormedAccounts)

\* C12: for a prompt judged safe, a valid account and successful blockhash,
\* fee and serialization calls the handler answers 200 with the transaction
\* and the message, except that the part_000 build answers 400 when the
\* prompt is empty, blank or the placeholder; a 400 is otherwise the answer
\* to an unsafe prompt, to an invalid account, or (app.ts) to a call that threw
C12_SafeValidAnswered ==
    /\ (safetyCheck = "safe" /\ req.account \in WellFormedAccounts
            /\ PastResponse /\ ~Logged(PreResponseErrors)
            /\ (variant = "part" => ~UnusablePrompt)) =>
          /\ Accepted
          /\ responses[1].transaction.instructions # <<>>
          /\ responses[1].message # ""
    /\ (variant = "part" /\ UnusablePrompt) => ~Accepted
    /\ (Len(responses) >= 1 /\ responses[1].status = 400) =>
          \/ JudgedUnsafe
          \/ req.account \notin WellFormedAccounts
          \/ /\ variant = "part"
             /\ UnusablePrompt
             /\ responses[1].error = "Invalid payload or prompt"
          \/ /\ variant = "app"
             /\ responses[1].error \in PreResponseErrors
             /\ Logged({responses[1].error})

\* the placeholder prompt, judged safe, from a valid account
C12_Witness ==
    /\ variant = "part"
    /\ safetyCheck = "safe"
    /\ req.account \in WellFormedAccounts
    /\ prompt = PromptPlaceholder
    /\ errorLog = <<>>
    /\ Len(responses) = 1
    /\ responses[1].status = 400

\* the transfers of lamports in a transaction
SystemTransfers(tx) ==
    {i \in DOMAIN tx.instructions :
        tx.instructions[i].programId = "SystemProgram.transfer"}

\* C13: the transaction of a 200 response holds exactly one transfer, from
\* the requesting account to the minter for the fee computed for the request,
\* exactly one memo instruction, whose data is the salted memo, and the
\* requesting account is its fee payer
C13_PaymentTransaction ==
    Accepted =>
        LET tx == responses[1].transaction IN
        /\ Cardinality(SystemTransfers(tx)) = 1
        /\ \A i \in SystemTransfers(tx) :
              /\ \E k \in WalletKeys :
                    /\ tx.instructions[i].fromPubkey = k
                    /\ Base58(k) = req.account
              /\ tx.instructions[i].toPubkey = MinterKey
              /\ tx.instructions[i].lamports = mintingFee
              /\ tx.instructions[i].lamports > 0
        /\ Cardinality(MemoInstructions(tx)) = 1
        /\ \A i \in MemoInstructions(tx) :
              /\ BufferToString(tx.instructions[i].data) = memo
              /\ memo = Trim(OrEmpty(req.memo)) \o NumberToString(randomNumber)
        /\ \E k \in WalletKeys : tx.feePayer = k /\ Base58(k) = req.account

C13_Witness ==
    /\ Accepted
    /\ req.account = "Wal333"
    /\ mintingFee # FallbackLamports
    /\ randomNumber = 12

\* C14: when the safety gate, the blockhash fetch or the serialization
\* throws, the handler has sent exactly one response, an error response of
\* status 400 or 500 with the message of the error, and neither the watcher
\* nor a stage was started
C14_FailureBeforeResponse ==
    \A i \in DOMAIN errorLog :
        errorLog[i] \in PreResponseErrors =>
            /\ pc = "done"
            /\ Len(responses) = 1
            /\ responses[1].status \in {400, 500}
            /\ responses[1].error = errorLog[i]
            /\ responses[1].transaction = EmptyTransaction
            /\ lateWrites = 0
            /\ watcher = "idle"
            /\ polls = <<>>
            /\ called = <<>>
            /\ assets = {}

\* the serialization throws after the transaction was built
C14_Witness ==
    /\ Logged(SerializationErrors)
    /\ transaction.instructions # <<>>
    /\ Len(responses) = 1

\* C15: once the 200 was sent the handler makes no further write on the
\* response, whatever fails in the watcher or in a stage
C15_NoSecondWrite ==
    Accepted => lateWrites = 0 /\ Len(responses) = 1

\* the catch block of the handler ran after the 200 was sent
AbortedAfterResponse == Accepted /\ lateWrites > 0

\* the statement of C18 as written: a request judged safe from a valid
\* account is never finished without its 200, and nothing is aborted between
\* the 200 and the confirmation of the payment
C18_Original ==
    /\ (safetyCheck = "safe" /\ req.account \in WellFormedAccounts /\ pc = "done")
          => Accepted
    /\ AbortedAfterResponse => watcher = "found"

\* C18: a request judged safe from a valid account is finished without its
\* 200 only when the blockhash fetch or the serialization threw or (part_000)
\* the prompt is empty, blank or the placeholder; after the 200 it is aborted
\* only by a ledger poll that threw or by a stage after the payment was found
C18_AbortPoints ==
    /\ (safetyCheck = "safe" /\ req.account \in WellFormedAccounts /\ pc = "done"
            /\ ~Accepted) =>
          /\ Len(responses) = 1
          /\ watcher = "idle"
          /\ \/ responses[1].error \in BlockhashErrors \cup SerializationErrors
             \/ variant = "part" /\ UnusablePrompt
    /\ AbortedAfterResponse =>
          /\ pc = "done"
          /\ \/ watcher = "threw" /\ Logged(PollErrors) /\ called = <<>>
             \/ watcher = "found" /\ failed # ""

\* the blockhash fetch throws for a safe prompt and a valid account
C18_Witness ==
    /\ safetyCheck = "safe"
    /\ req.account \in WellFormedAccounts
    /\ pc = "done"
    /\ Len(responses) = 1
    /\ responses[1].error \in BlockhashErrors

\* C19: an error raised by a ledger poll does not end the watcher: it goes
\* on as after a poll without a match, and nothing is written or aborted
C19_PollErrorIsNoMatch ==
    Logged(PollErrors) =>
        /\ watcher \in {"polling", "found", "absent"}
        /\ lateWrites = 0

\* C17: two requests of one paying account never poll for the same salted
\* memo at the same time
C17_UniquePending ==
    \A r1, r2 \in Reqs :
        (r1 # r2 /\ rq[r1].phase = "polling" /\ rq[r2].phase = "polling"
            /\ rq[r1].account = rq[r2].account) =>
                rq[r1].memo # rq[r2].memo

\* C20: a request goes on to its stages only with the signature of a
\* transaction that succeeded and moved the request's fee from the payer to
\* the minter
C20_OnlyPaidProceeds ==
    \A r \in Reqs :
        rq[r].phase = "stages" =>
            /\ rq[r].signature \in 1..Len(chain)
            /\ ~TxOf(chain, rq[r].signature).err
            /\ TxOf(chain, rq[r].signature).lamports = rq[r].fee

\* C21: two requests of one paying account with different salted memos never
\* go on to their stages with the signature of one and the same transaction
C21_OneRequestPerTransaction ==
    \A r1, r2 \in Reqs :
        (r1 # r2 /\ rq[r1].phase = "stages" /\ rq[r2].phase = "stages"
            /\ rq[r1].account = rq[r2].account /\ rq[r1].memo # rq[r2].memo) =>
                rq[r1].signature # rq[r2].signature

\* C26: a transfer is submitted only in an attempt that has found the mint
\* account and a token account of the sender; an attempt whose check fails
\* submits nothing, and the attempt after it is counted as the next one
C26_SubmitOnlyAfterChecks ==
    [][ /\ t_submitted' # t_submitted =>
              /\ t_mintSeen /\ t_ownerSeen
              /\ t_submitted' = t_submitted + 1
              /\ t_attempt' = t_attempt
              /\ t_attempt \in 1..maxRetries
        /\ (t_pc \in {"getAccountInfo", "getTokenAccountsByOwner"}
                /\ t_pc' \in {"sleep", "done"}) =>
              t_submitted' = t_submitted
        /\ (t_pc = "sleep" /\ t_pc' = "getAccountInfo") =>
              /\ t_attempt' = t_attempt + 1
              /\ ~t_mintSeen' /\ ~t_ownerSeen'
        /\ t_attempt' # t_attempt => t_pc' = "getAccountInfo"
      ]_vars

\* two attempts that failed a check, then a submission in the third
C26_Witness ==
    /\ t_attempt = 3
    /\ t_sleeps = 2
    /\ t_errors = 1
    /\ t_submitted = 1
    /\ t_pc = "sendAndConfirmTransaction"

\* C27: the loops wait only between attempts: the watcher sleeps 9 times over
\* 10 polls without a match, and transferNFT sleeps at most maxRetries - 1
\* times however its attempts fail
C27_NoSleepAfterLastAttempt ==
    /\ sleeps <= maxChecks - 1
    /\ watcher = "absent" => sleeps = maxChecks - 1
    /\ t_sleeps <= maxRetries - 1

\* C24: when the handler is finished and no deletion is outstanding, no image
\* file written for the request is left, unless fs.unlink itself failed
C24_ImageFileDeleted ==
    (pc = "done" /\ unlinkPending = {}
        /\ ~Logged({"Failed to delete the local image file:"})) =>
            files = {}

\* the statement of C22 as written, its part about the watcher: when the
\* watcher returns absent, no transaction of the payer carries the salted memo
C22_Original ==
    watcher = "absent" =>
        \A i \in DOMAIN ledger : ~CarriesTarget(ledger[i], watchMemo)

\* how far the pipeline of a paid request has come
StagePosition(p) ==
    CASE p = "getSignaturesForAddress" -> 0
      [] p = "generatePrompt" -> 1
      [] p = "defineConfig" -> 2
      [] p = "imagine" -> 3
      [] p = "createURI.readFile" -> 4
      [] p = "createURI.upload" -> 5
      [] p = "createURI.uploadJson" -> 6
      [] p = "createAsset" -> 7
      [] p = "transferNFT" -> 8
      [] p = "done" -> 9
      [] OTHER -> 0

\* the call the handler waits for returns
CallReturns == Next /\ pc' # pc

\* C22: a payment that one of the polls returns among the 5 newest
\* transactions of the payer is found at that poll; from there each call that
\* returns takes the pipeline one stage further, a call is always there to
\* return, and a pipeline that ends without a failed call has minted a token
\* that the payer owns.  A payment no poll returns is not found.
C22_SeenPaymentIsServed ==
    /\ [](firstMatch.poll # 0 =>
            /\ watcher = "found"
            /\ transactionSignature = firstMatch.signature
            /\ StagePosition(pc) >= 1)
    /\ [](firstMatch.poll = 0 => (assets = {} /\ called = <<>>))
    /\ []((watcher = "found" /\ pc # "done") => ENABLED CallReturns)
    /\ [][(watcher = "found" /\ pc' # pc) =>
              StagePosition(pc') > StagePosition(pc)]_vars
    /\ []((watcher = "found" /\ pc = "done" /\ failed = "") =>
            /\ Len(transfers) = 1
            /\ \E a \in assets :
                  /\ a.owner = user_account
                  /\ a.asset = transfers[1].asset)

\* a payment found at a later poll than the first, and served
C22_Witness ==
    /\ firstMatch.poll >= 2
    /\ pc = "done"
    /\ failed = ""
    /\ \E a \in assets : a.owner = user_account

\* C30: a request that was accepted ends in one of two ways: the watcher has
\* used up its 10 polls without a match, or it found a match and the
\* pipeline ran to success or to its first failing stage
C30_EndsByBudgetOrPipeline ==
    (pc = "done" /\ Accepted) =>
        \/ /\ watcher = "absent"
           /\ Len(polls) = maxChecks
           /\ called = <<>>
        \/ /\ watcher = "found"
           /\ \/ failed # "" /\ called[Len(called)] = failed
              \/ failed = "" /\ returned = StageOrder

\* the classifier gave a verdict that says the prompt is safe: the text
\* 'safe', or a moderation result whose `flagged` is the boolean false
VerdictOfSafe == moderation \in {"safe", "flagged: false"}

\* C25 as stated: the safety gate fails closed. When the classifier call
\* threw, or answered anything other than a verdict of safe (an unsafe
\* verdict, another text, a result without a boolean `flagged`), the request
\* is answered with one error response and no transaction is built or
\* returned.
C25_GateFailsClosed ==
    /\ Logged(GateErrors) =>
          /\ pc = "done"
          /\ Len(responses) = 1 /\ responses[1].status # 200
          /\ NothingStarted
    /\ (moderation # "" /\ ~VerdictOfSafe) =>
          /\ pc = "done"
          /\ Len(responses) = 1 /\ responses[1].status # 200
          /\ NothingStarted

-----------------------------------------------------------------------------
\* Two pipelines over one upload directory: imagine writes the image file,
\* createURI reads it back and uploads it, fs.unlink deletes it
\* (src/src/utils/generateImage.ts:32-41, src/src/app.ts:234-260 and 549-563).

\* the titles the language model gives (CONFIG.imgName) and the random numbers
FileTitles == {<<"a">>, <<"a", "1">>}
FileRandoms == {2, 12}

\* variation: title and number run together without the underscore
ImageFileName_noSeparator(imgName, rnd) ==
    imgName \o NumberToString(rnd) \o <<".", "p", "n", "g">>

\* `${CONFIG.imgName}_${randomNumber}.png` under CONFIG.uploadPath
ImageFileName(imgName, rnd) ==
    imgName \o <<"_">> \o NumberToString(rnd) \o <<".", "p", "n", "g">>

Exists(path) == \E f \in disk : f.path = path

\* promises.writeFile: creates the file or replaces its content
WriteFile(path, image) ==
    {f \in disk : f.path # path} \cup {[path |-> path, image |-> image]}

\* promise.readFile of a file that exists
ReadFile(path) == (CHOOSE f \in disk : f.path = path).image

unchangedByFiles == <<handlerVars, ledger, watcherVars, pipelineVars, transferVars,
    pairVars,
    earlyVars,
    feeVars>>

\* processPostTransaction starts for a request: the title and the random
\* number are fixed, imagine is called
FilesStart(r, imgName, rnd) ==
    /\ pipe[r].pc = "idle"
    /\ pipe' = [pipe EXCEPT ![r].pc = "imagine",
                            ![r].imgName = imgName,
                            ![r].randomNumber = rnd]
    /\ UNCHANGED <<unchangedByFiles, disk, unlinks>>

\* imagine writes the image of its request and returns the path, or throws
\* before anything is written; on return createURI runs to `await readFile`
FilesImagine(r, ok) ==
    /\ pipe[r].pc = "imagine"
    /\ IF ok
       THEN LET path == ImageFileName(pipe[r].imgName, pipe[r].randomNumber)
            IN  /\ disk' = WriteFile(path, r)
                /\ pipe' = [pipe EXCEPT ![r].pc = "createURI.readFile",
                                        ![r].imagePath = path]
       ELSE /\ pipe' = [pipe EXCEPT ![r].pc = "done", ![r].failed = "imagine"]
            /\ UNCHANGED disk
    /\ UNCHANGED <<unchangedByFiles, unlinks>>

\* createURI: readFile gives the content the file has now, or throws: the
\* file is not there (ENOENT) or cannot be read
FilesReadFile(r, ok) ==
    /\ pipe[r].pc = "createURI.readFile"
    /\ pipe' = IF ~Exists(pipe[r].imagePath)
               THEN [pipe EXCEPT ![r].pc = "done", ![r].failed = "readFile: ENOENT"]
               ELSE IF ~ok
               THEN [pipe EXCEPT ![r].pc = "done", ![r].failed = "readFile"]
               ELSE [pipe EXCEPT ![r].pc = "createURI.upload",
                                 ![r].imageBuffer = ReadFile(pipe[r].imagePath)]
    /\ UNCHANGED <<unchangedByFiles, disk, unlinks>>

\* createURI uploads the buffer and returns, and the pipeline asks fs.unlink
\* to delete the file before it goes on to createAsset; or an upload throws
FilesCreateURIReturns(r, ok) ==
    /\ pipe[r].pc = "createURI.upload"
    /\ IF ok
       THEN /\ pipe' = [pipe EXCEPT ![r].pc = "done",
                                    ![r].uploaded = pipe[r].imageBuffer]
            /\ unlinks' = unlinks \cup {<<r, pipe[r].imagePath>>}
       ELSE /\ pipe' = [pipe EXCEPT ![r].pc = "done", ![r].failed = "upload"]
            /\ UNCHANGED unlinks
    /\ UNCHANGED <<unchangedByFiles, disk>>

\* a deletion asked of fs.unlink is carried out: the file at the path goes,
\* whoever wrote it last (a path with no file gives the callback an error)
FilesUnlinkCompletes(r, path) ==
    /\ <<r, path>> \in unlinks
    /\ unlinks' = unlinks \ {<<r, path>>}
    /\ disk' = {f \in disk : f.path # path}
    /\ UNCHANGED <<unchangedByFiles, pipe>>

NextFiles ==
    \/ \E r \in Reqs, imgName \in FileTitles, rnd \in FileRandoms :
          FilesStart(r, imgName, rnd)
    \/ \E r \in Reqs, ok \in BOOLEAN : FilesImagine(r, ok)
    \/ \E r \in Reqs, ok \in BOOLEAN : FilesReadFile(r, ok)
    \/ \E r \in Reqs, ok \in BOOLEAN : FilesCreateURIReturns(r, ok)
    \/ \E u \in unlinks : FilesUnlinkCompletes(u[1], u[2])

SpecFiles == Init /\ [][NextFiles]_vars

\* the two pipelines write to the same local image path
SamePath(r, s) ==
    /\ pipe[r].imgName = pipe[s].imgName
    /\ pipe[r].randomNumber = pipe[s].randomNumber

\* C23: a pipeline uploads the image of another request, or finds its file
\* gone when createURI reads it, only when the other pipeline has the same
\* title and the same random number; pipelines whose random numbers differ
\* never touch each other's file: their paths differ, and the file at a
\* pipeline's path holds that pipeline's own image.
C23_RaceOnlyOnSamePath ==
    \A r \in Reqs : \A s \in Reqs \ {r} :
        /\ (pipe[r].imageBuffer = s \/ pipe[r].uploaded = s) => SamePath(r, s)
        /\ pipe[r].failed = "readFile: ENOENT" => SamePath(r, s)
        /\ (pipe[r].imagePath # <<>> /\ pipe[r].randomNumber # pipe[s].randomNumber) =>
              /\ pipe[r].imagePath # pipe[s].imagePath
              /\ \A f \in disk : f.path = pipe[r].imagePath => f.image = r
              /\ \A u \in unlinks : u[2] = pipe[r].imagePath => u[1] = r

\* two pipelines with the same title and random number raced: the first
\* uploaded the image of the second, which had overwritten the file, and the
\* second found the file deleted before its createURI had read it
C23_Witness ==
    /\ SamePath(1, 2)
    /\ pipe[1].uploaded = 2
    /\ pipe[2].failed = "readFile: ENOENT"

-----------------------------------------------------------------------------
\* The first build of mintProgrammableNft and transferNFT and the end of the
\* handler that calls them (src/unnamed/part_000:363-442 and 636-655).

\* mint addresses the Metaplex client generates
EarlyMintKeys == AssetKeys \cup {6}

\* how sendAndConfirmTransaction can end: confirmed, confirmed with
\* confirmResponse.value.err set, or thrown
SendAndConfirmAnswers == {"ok", "err", "throws"}

unchangedByEarly == <<handlerVars, ledger, watcherVars, pipelineVars, transferVars,
    pairVars, fileVars,
    feeVars>>

\* the catch block of the handler (part_000:648-653): console.error and a
\* 400 written on the response that already went out
EarlyHandlerCatch(message) ==
    /\ e_log' = Append(e_log, message)
    /\ e_lateWrites' = e_lateWrites + 1
    /\ e_pc' = "done"

\* the catch block of mintProgrammableNft (404-406) logs the error and the
\* function returns undefined; `if (!mintAddress) throw` (638-640) then
\* takes the handler to its catch block
EarlyMintSwallows(message) ==
    /\ e_log' = e_log \o <<message, "Failed to mint the NFT. Mint address is undefined.">>
    /\ e_lateWrites' = e_lateWrites + 1
    /\ e_pc' = "done"

\* the handler reaches the mint for a payer and calls mintProgrammableNft,
\* which awaits the create builder
EarlyCallMint(recipient) ==
    /\ e_pc = "idle"
    /\ e_recipient' = recipient
    /\ e_pc' = "builders.create"
    /\ UNCHANGED <<unchangedByEarly, e_builderMint, e_tokens, e_mintAddress,
                   e_transfers, e_log, e_lateWrites>>

\* nfts().builders().create(...) returns a transaction builder for a new
\* mint: nothing is sent yet; or it throws
EarlyBuildersCreate(ok, key) ==
    /\ e_pc = "builders.create"
    /\ key \in EarlyMintKeys
    /\ IF ok
       THEN /\ e_builderMint' = key
            /\ e_pc' = "nfts.create"
            /\ UNCHANGED <<e_log, e_lateWrites>>
       ELSE /\ EarlyMintSwallows("builders().create failed")
            /\ UNCHANGED e_builderMint
    /\ UNCHANGED <<unchangedByEarly, e_recipient, e_tokens, e_mintAddress,
                   e_transfers>>

\* nfts().create(...) builds, sends and confirms a creation of its own, with
\* a mint of its own (isMutable: false); or it throws
EarlyNftsCreate(ok, key) ==
    /\ e_pc = "nfts.create"
    /\ key \in EarlyMintKeys \ {e_builderMint}
    /\ IF ok
       THEN /\ e_tokens' = e_tokens \cup {[mint |-> key, isMutable |-> FALSE]}
            /\ e_pc' = "mint.sendAndConfirmTransaction"
            /\ UNCHANGED <<e_log, e_lateWrites>>
       ELSE /\ EarlyMintSwallows("nfts().create failed")
            /\ UNCHANGED e_tokens
    /\ UNCHANGED <<unchangedByEarly, e_recipient, e_builderMint, e_mintAddress,
                   e_transfers>>

\* rpc().sendAndConfirmTransaction(transactionBuilder): the builder's
\* creation (isMutable: true) is confirmed and its mint address returned to
\* the handler, which calls transferNFT; or the confirmation carries an
\* error or the call throws
EarlyMintSendAndConfirm(answer) ==
    /\ e_pc = "mint.sendAndConfirmTransaction"
    /\ CASE answer = "ok" ->
              /\ e_tokens' = e_tokens \cup {[mint |-> e_builderMint, isMutable |-> TRUE]}
              /\ e_mintAddress' = e_builderMint
              /\ e_pc' = "getAccountInfo"
              /\ UNCHANGED <<e_log, e_lateWrites>>
         [] answer = "err" ->
              /\ EarlyMintSwallows("failed to confirm transaction")
              /\ UNCHANGED <<e_tokens, e_mintAddress>>
         [] answer = "throws" ->
              /\ EarlyMintSwallows("sendAndConfirmTransaction failed")
              /\ UNCHANGED <<e_tokens, e_mintAddress>>
    /\ UNCHANGED <<unchangedByEarly, e_recipient, e_builderMint, e_transfers>>

\* transferNFT: getAccountInfo returns (null or not, it is only logged) and
\* the transfer builder is awaited; or it throws
EarlyGetAccountInfo(ok) ==
    /\ e_pc = "getAccountInfo"
    /\ IF ok
       THEN /\ e_pc' = "builders.transfer"
            /\ UNCHANGED <<e_log, e_lateWrites>>
       ELSE EarlyHandlerCatch("getAccountInfo failed")
    /\ UNCHANGED <<unchangedByEarly, e_recipient, e_builderMint, e_tokens,
                   e_mintAddress, e_transfers>>

EarlyTransferBuilder(ok) ==
    /\ e_pc = "builders.transfer"
    /\ IF ok
       THEN /\ e_pc' = "transfer.sendAndConfirmTransaction"
            /\ UNCHANGED <<e_log, e_lateWrites>>
       ELSE EarlyHandlerCatch("builders().transfer failed")
    /\ UNCHANGED <<unchangedByEarly, e_recipient, e_builderMint, e_tokens,
                   e_mintAddress, e_transfers>>

\* the transfer of the returned mint to the payer is confirmed, confirmed
\* with an error, or the call throws
EarlyTransferSendAndConfirm(answer) ==
    /\ e_pc = "transfer.sendAndConfirmTransaction"
    /\ CASE answer = "ok" ->
              /\ e_transfers' = e_transfers \cup
                                  {[mint |-> e_mintAddress, toOwner |-> e_recipient]}
              /\ e_pc' = "done"
              /\ UNCHANGED <<e_log, e_lateWrites>>
         [] answer = "err" ->
              /\ EarlyHandlerCatch("Failed to confirm transfer transaction")
              /\ UNCHANGED e_transfers
         [] answer = "throws" ->
              /\ EarlyHandlerCatch("sendAndConfirmTransaction failed")
              /\ UNCHANGED e_transfers
    /\ UNCHANGED <<unchangedByEarly, e_recipient, e_builderMint, e_tokens,
                   e_mintAddress>>

NextEarly ==
    \/ \E recipient \in WalletKeys : EarlyCallMint(recipient)
    \/ \E ok \in BOOLEAN, key \in EarlyMintKeys : EarlyBuildersCreate(ok, key)
    \/ \E ok \in BOOLEAN, key \in EarlyMintKeys : EarlyNftsCreate(ok, key)
    \/ \E answer \in SendAndConfirmAnswers : EarlyMintSendAndConfirm(answer)
    \/ \E ok \in BOOLEAN : EarlyGetAccountInfo(ok)
    \/ \E ok \in BOOLEAN : EarlyTransferBuilder(ok)
    \/ \E answer \in SendAndConfirmAnswers : EarlyTransferSendAndConfirm(answer)

SpecEarly == Init /\ [][NextEarly]_vars

\* C28 as stated: a call of mintProgrammableNft submits exactly one token
\* creation: never two tokens, one token when it returned a mint address;
\* and a creation that failed is surfaced, so that no transfer is attempted.
C28_OneCreationPerCall ==
    /\ Cardinality(e_tokens) <= 1
    /\ e_mintAddress # NoKey => e_tokens = {[mint |-> e_mintAddress, isMutable |-> TRUE]}
    /\ (e_mintAddress = NoKey /\ e_pc = "done") =>
          /\ e_transfers = {}
          /\ e_log # <<>>

-----------------------------------------------------------------------------
\* One call of getFeeInLamports against the price service
\* (src/src/utils/fee.ts:4-27, src/src/app.ts:375-398).

MaxPrice == 60

\* the prices the service answers with, in whole dollars.  A price of 1
\* dollar is left out: 3 / 1 * LAMPORTS_PER_SOL is beyond the integers of
\* the model.
FeePrices == (-2 .. 0) \cup (2 .. MaxPrice)

\* the request throws, the status is not OK, the body has no solana.usd, the
\* price is a string, the price is a number
FeeAnswers ==
    { [kind |-> k, usd |-> 0] : k \in {"throw", "not-ok", "missing", "not-a-number", "huge"} }
        \cup { [kind |-> "number", usd |-> p] : p \in FeePrices }

unchangedByFee == <<handlerVars, ledger, watcherVars, pipelineVars, transferVars,
    pairVars, fileVars, earlyVars>>

\* the handler calls getFeeInLamports, which awaits fetch
FeeCall(v) ==
    /\ f_pc = "idle"
    /\ f_build' = v
    /\ f_pc' = "fetch"
    /\ UNCHANGED <<unchangedByFee, f_answer, f_fee, f_log>>

\* the price service answers and the function returns: the dynamic fee, or
\* from its catch block, after console.error, the fallback
FeeReturns(answer) ==
    /\ f_pc = "fetch"
    /\ f_answer' = answer
    /\ f_fee' = getFeeInLamports(f_build, answer)
    /\ f_log' = IF answer.kind \in {"number", "huge"} /\ (answer.kind = "huge" \/ answer.usd > 0)
                THEN f_log
                ELSE Append(f_log, "Error fetching dynamic fee, using fallback:")
    /\ f_pc' = "returned"
    /\ UNCHANGED <<unchangedByFee, f_build>>

NextFee ==
    \/ \E v \in Variants : FeeCall(v)
    \/ \E answer \in FeeAnswers : FeeReturns(answer)

SpecFee == Init /\ [][NextFee]_vars

\* the price service did not give a price above zero
NoUsablePrice ==
    \/ f_answer.kind \in {"throw", "not-ok", "missing", "not-a-number"}
    \/ f_answer.kind = "number" /\ f_answer.usd <= 0

\* C29 as stated: getFeeInLamports always returns (whatever the price
\* service did, the call ends in "returned"); when the request failed, the
\* status was not OK or the price was missing, not a number, zero or
\* negative it returns exactly 20,000,000 lamports; and the fee it returns
\* is always a positive whole number of lamports.
C29_FeeNeverFailsAlwaysPositive ==
    f_pc = "returned" =>
        /\ NoUsablePrice => f_fee = 20000000
        /\ f_fee \in Nat /\ f_fee > 0

====
